---- MODULE Spec2Model ----
(***************************************************************************)
(* A model of the AIMC backend's per-connection session handler            *)
(* (ws-handler.ts: handleConnection), the Gemini Live adapters             *)
(* (gemini.ts, gemini-text.ts), the SQLite turn store (db.ts) and the      *)
(* event engine with its quiz triggers (events/*.ts).                      *)
(*                                                                         *)
(* One step of the model is one macrotask of the Node event loop: a        *)
(* WebSocket message handler, a provider callback, a timer callback or the *)
(* resumption of an awaited network call, each run up to its next real     *)
(* suspension point (awaits that only cross microtasks are part of the     *)
(* same step).                                                             *)
(***************************************************************************)
EXTENDS Integers, Sequences, FiniteSets, TLC

\* ------------------------------------------------------------------ bounds
MaxInit == 2          \* init commands (and so minted sessions) per behaviour
MaxUtter == 1         \* finalized user utterances per behaviour of a whole connection
MaxPending == 1       \* turn completions suspended at once
MaxRuns == 5          \* speech runs counted in the activity-detection scenario
MaxTurnUtter == 6     \* utterances in the turn-completion scenario
MaxE2ETurns == 10     \* turns of the end-to-end scenario
MaxQuizTurns == 7      \* utterances of the quiz-dispatch scenario
MaxStoreTurns == 2     \* turns appended to the store under test
MaxClock == 2          \* milliseconds the store's clock may advance by itself
MaxAgentTurns == 8      \* turns handed to the judging trigger under test
MaxPromptTurns == 11    \* turns saved in the prompt scenario
MaxAgentCalls == 2      \* its onTurn calls suspended at once
MaxTriggers == 2      \* triggers registered on an engine under test
MaxCount == 11        \* largest messageCount handed to a trigger under test
TickMs == 150         \* granularity of modelled time, in milliseconds

\* ------------------------------------------------------- program constants
SPEECH_THRESHOLD == 400
SILENCE_TIMEOUT_MS == 600
TRIGGER_EVERY_N_MESSAGES == 5
HISTORY_WINDOW == 20
PROMPT_HISTORY_LIMIT == 12
\* QuizAgentTrigger: the count below which it never asks, and its default gap
MIN_MESSAGES == 4
DEFAULT_MIN_GAP == 3

\* ---------------------------------------------------------------- helpers
Min(a, b) == IF a < b THEN a ELSE b
Max(a, b) == IF a > b THEN a ELSE b

\* A PCM buffer is the sequence of bytes that Buffer.from(base64) yields.
Frames ==
  { <<>>,                \* no samples
    <<7>>,               \* one byte: no whole sample
    <<144, 1>>,          \* 400: exactly the threshold
    <<111, 254>>,        \* -401
    <<145, 1, 0, 0>>,    \* 401, 0: rms 283
    <<0, 128, 7>> }      \* -32768 and a trailing byte

\* buf.readInt16LE(i * 2), i counted from 0
readInt16LE(buf, i) ==
  LET u == buf[2 * i + 1] + 256 * buf[2 * i + 2]
  IN  IF u >= 32768 THEN u - 65536 ELSE u

RECURSIVE SumSquares(_, _)
SumSquares(buf, count) ==
  IF count = 0 THEN 0
  ELSE LET s == readInt16LE(buf, count - 1)
       IN  s * s + SumSquares(buf, count - 1)

\* calcPCMRMS(base64PCM) > SPEECH_THRESHOLD, with the square root removed:
\* sqrt(sum / count) > T  <=>  sum > T * T * count, for count > 0.
EnergyAboveThreshold(buf) ==
  LET count == Len(buf) \div 2
  IN  IF count = 0 THEN FALSE
      ELSE SumSquares(buf, count) > SPEECH_THRESHOLD * SPEECH_THRESHOLD * count

\* ------------------------------------------------------------------ state
VARIABLES
  \* handleConnection's closure variables (ws-handler.ts)
  wsOpen,                 \* ws.readyState === OPEN
  sessionId,              \* 0 is null; ids are minted 1, 2, ... (uuidv4: fresh)
  ttsMode,                \* "gemini" | "supertone"
  geminiSession,          \* 0 is null; otherwise a provider session handle
  currentUserTranscript,  \* 0 is ""; otherwise an utterance
  isActivityActive,
  silenceTimer,           \* -1 is null; otherwise the milliseconds left
  \* the provider (Gemini Live) side
  live,                   \* per handle: none, connecting, open, closing, closed, failed
  liveMode,               \* per handle: the response mode it was opened in
  currentTextTurn,        \* per handle: text accumulated for the model turn is non-empty
  nextUtter,              \* utterances transcribed so far
  \* db.ts tables
  sessions, messages, quizzes,
  \* suspended async flows (an awaited ai.live.connect is live[h] = "connecting")
  pendingTTS,             \* onTextResponse calls awaiting supertoneTextToSpeech
  pendingQuiz,            \* turn completions awaiting generateQuiz
  \* an EventEngine instance under test and an agent trigger's marker
  triggers, engineOut,
  \* observation of the run (not program state)
  step,                   \* what the last step did
  activityLog,            \* the last two activity signals sent to the provider
  sinceLoud,              \* milliseconds since the last above-threshold frame, capped
  heard,                  \* utterance transcribed since the last response-complete
  ttsHeard,               \* the same, for each response awaiting text-to-speech
  lost,                   \* utterances whose completed turn was not persisted
  runs, starts, ends, terminated, \* counters of the activity-detection scenario
  turnsDone,              \* completed turns of the end-to-end scenario
  \* the turn store under test (db.ts): Date.now() and the timestamp column
  clock,                  \* Date.now()
  stamps,                 \* per row of messages: its timestamp
  readOut,                \* what the last getMessages call returned
  \* a QuizAgentTrigger instance registered on the process-wide engine
  lastTriggeredAt,        \* its private field
  agentCalls,             \* its onTurn calls awaiting the judgment and generation
  agentOut,               \* what its last settled onTurn call did
  ownLast,                \* per session: the count of the last quiz it emitted for it
  \* generateQuiz's prompt under test
  prompt                  \* the history and the conversation text of the last call

connVars == <<wsOpen, sessionId, ttsMode, geminiSession, currentUserTranscript,
              isActivityActive, silenceTimer>>
provVars == <<live, liveMode, currentTextTurn, nextUtter>>
dbVars == <<sessions, messages, quizzes>>
contVars == <<pendingTTS, pendingQuiz>>
engineVars == <<triggers, engineOut>>
obsVars == <<step, activityLog, sinceLoud>>
scenVars == <<heard, ttsHeard, lost, runs, starts, ends, terminated, turnsDone>>
storeVars == <<clock, stamps, readOut>>
agentVars == <<lastTriggeredAt, agentCalls, agentOut, ownLast>>
promptVars == <<prompt>>
auxVars == <<storeVars, agentVars, promptVars>>
vars == <<connVars, provVars, dbVars, contVars, engineVars, obsVars, scenVars, auxVars>>

Handles == 1..MaxInit

\* a JavaScript number that is either -Infinity or an integer
NegInfinity == [finite |-> FALSE, n |-> 0]
Finite(n) == [finite |-> TRUE, n |-> n]
Modes == {"gemini", "supertone"}

NoStep ==
  [op |-> "none", sig |-> "none", fwd |-> FALSE, loud |-> FALSE, was |-> FALSE,
   held |-> FALSE, sent |-> <<>>, threw |-> FALSE, ready |-> 0]

\* send(ws, msg): only when the socket is OPEN
send(open, msgs) == IF open THEN msgs ELSE <<>>

Log(s) == [prev |-> activityLog.last, last |-> s]

TimerDue == silenceTimer = 0

\* ------------------------------------------------- activity state machine
\* case "audio_chunk": the energy transition (isActivityActive afterwards)
ActivityAfterFrame(loud, active) == IF loud THEN TRUE ELSE active

StartOnEveryLoudFrame(loud, active) == loud

\* case "audio_chunk": sendActivityStart is called
StartOnFrame(loud, active) == loud /\ ~active

\* case "audio_chunk": clearTimeout and setTimeout(..., SILENCE_TIMEOUT_MS)
TimerAfterFrame(loud, timer) == IF loud THEN SILENCE_TIMEOUT_MS ELSE timer

ForwardLoudOnly(loud, activeAfter) == loud /\ activeAfter

\* case "audio_chunk": sendAudioChunk is called
ForwardFrame(loud, activeAfter) == activeAfter

\* the setTimeout callback: sendActivityEnd is called and the state reset
EndOnTimer(g, active) == g # 0 /\ active

EndOnEveryForceCommit(active) == TRUE

\* case "force_commit": sendActivityEnd is called and the state reset
EndOnForceCommit(active) == active

\* ws.on("message") with a parsed { type: "audio_chunk", data }
AudioChunk(buf) ==
  /\ wsOpen /\ ~TimerDue
  /\ LET g == geminiSession
         loud == EnergyAboveThreshold(buf)
         start == g # 0 /\ StartOnFrame(loud, isActivityActive)
         active2 == IF g = 0 THEN isActivityActive
                    ELSE ActivityAfterFrame(loud, isActivityActive)
         fwd == g # 0 /\ ForwardFrame(loud, active2)
     IN  /\ isActivityActive' = active2
         /\ silenceTimer' = IF g = 0 THEN silenceTimer
                            ELSE TimerAfterFrame(loud, silenceTimer)
         /\ activityLog' = IF start THEN Log("start") ELSE activityLog
         /\ sinceLoud' = IF loud THEN 0 ELSE sinceLoud
         \* sendAudioChunk has no try/catch: on a session that is no longer
         \* open, sendRealtimeInput either throws or drops the frame silently
         /\ \E t \in (IF fwd /\ live[g] # "open" THEN BOOLEAN ELSE {FALSE}) :
              step' = [NoStep EXCEPT !.op = "audio_chunk",
                                     !.sig = IF start THEN "start" ELSE "none",
                                     !.fwd = fwd, !.loud = loud,
                                     !.was = isActivityActive, !.held = g # 0,
                                     !.threw = t]
  /\ UNCHANGED <<wsOpen, sessionId, ttsMode, geminiSession, currentUserTranscript>>
  /\ UNCHANGED <<provVars, dbVars, contVars>>

\* the callback given to setTimeout, run once the timeout has elapsed
SilenceTimerFires ==
  /\ TimerDue
  /\ LET end == EndOnTimer(geminiSession, isActivityActive)
     IN  /\ silenceTimer' = -1
         /\ isActivityActive' = IF end THEN FALSE ELSE isActivityActive
         /\ activityLog' = IF end THEN Log("end") ELSE activityLog
         /\ step' = [NoStep EXCEPT !.op = "timer",
                                   !.sig = IF end THEN "end" ELSE "none",
                                   !.was = isActivityActive,
                                   !.held = geminiSession # 0]
  /\ UNCHANGED <<wsOpen, sessionId, ttsMode, geminiSession, currentUserTranscript>>
  /\ UNCHANGED <<provVars, dbVars, contVars, sinceLoud>>

\* ms milliseconds pass. A timeout that has elapsed runs before anything
\* that arrives later (the event loop's timers phase), so time stops at it.
Tick(ms) ==
  /\ ~TimerDue
  /\ silenceTimer > 0 \/ sinceLoud < SILENCE_TIMEOUT_MS
  /\ silenceTimer' = IF silenceTimer > 0 THEN Max(0, silenceTimer - ms)
                     ELSE silenceTimer
  /\ sinceLoud' = Min(SILENCE_TIMEOUT_MS, sinceLoud + ms)
  /\ step' = [NoStep EXCEPT !.op = "tick"]
  /\ UNCHANGED <<wsOpen, sessionId, ttsMode, geminiSession, currentUserTranscript,
                 isActivityActive>>
  /\ UNCHANGED <<provVars, dbVars, contVars, activityLog>>

\* ws.on("message") with a parsed { type: "force_commit" }
ForceCommit ==
  /\ wsOpen /\ ~TimerDue
  /\ LET g == geminiSession
         end == g # 0 /\ EndOnForceCommit(isActivityActive)
     IN  /\ silenceTimer' = IF g = 0 THEN silenceTimer ELSE -1
         /\ isActivityActive' = IF end THEN FALSE ELSE isActivityActive
         /\ activityLog' = IF end THEN Log("end") ELSE activityLog
         /\ step' = [NoStep EXCEPT !.op = "force_commit",
                                   !.sig = IF end THEN "end" ELSE "none",
                                   !.was = isActivityActive, !.held = g # 0,
                                   !.sent = IF g = 0 THEN <<>>
                                            ELSE send(wsOpen, <<"avatar_state:thinking">>)]
  /\ UNCHANGED <<wsOpen, sessionId, ttsMode, geminiSession, currentUserTranscript>>
  /\ UNCHANGED <<provVars, dbVars, contVars, sinceLoud>>

\* ------------------------------------------------------------ db.ts tables
addMessage(msgs, sid, role, content) ==
  Append(msgs, [sid |-> sid, role |-> role, content |-> content])

\* a count without the session_id condition of the WHERE clause
getUserMessageCountAnySession(msgs, sid) ==
  Cardinality({i \in DOMAIN msgs : msgs[i].role = "user"})

getUserMessageCount(msgs, sid) ==
  Cardinality({i \in DOMAIN msgs : msgs[i].sid = sid /\ msgs[i].role = "user"})

saveQuiz(qz, sid, questions) == Append(qz, [sid |-> sid, questions |-> questions])

\* ------------------------------------------------- quiz generation, triggers
\* What ai.models.generateContent answers: a rejection ("neterr") or a text.
GenOutputs ==
  {"neterr", "nonjson", "[]", "[q]", "[q,q]", "{}", "null", "fence[q]fence"}

\* the two replace calls that strip a leading and a trailing code fence, and trim
StripFence(raw) == IF raw = "fence[q]fence" THEN "[q]" ELSE raw

\* JSON.parse of the cleaned text; length -1 stands for undefined
JSONParse(text) ==
  CASE text = "[]" -> [ok |-> TRUE, json |-> "array", length |-> 0]
    [] text = "[q]" -> [ok |-> TRUE, json |-> "array", length |-> 1]
    [] text = "[q,q]" -> [ok |-> TRUE, json |-> "array", length |-> 2]
    [] text = "{}" -> [ok |-> TRUE, json |-> "object", length |-> -1]
    [] text = "null" -> [ok |-> TRUE, json |-> "null", length |-> -1]
    [] OTHER -> [ok |-> FALSE, json |-> "none", length |-> -1]

\* a generateQuiz that lets the parse failure escape
generateQuizParseThrows(raw) ==
  IF raw = "neterr" \/ ~JSONParse(StripFence(raw)).ok
  THEN [kind |-> "rejected", json |-> "none", length |-> -1]
  ELSE [kind |-> "value", json |-> JSONParse(StripFence(raw)).json,
        length |-> JSONParse(StripFence(raw)).length]

\* generateQuiz(history): rejected when the call rejects, [] when the parse
\* throws, otherwise whatever JSON.parse returned (cast, not checked)
generateQuiz(raw) ==
  IF raw = "neterr" THEN [kind |-> "rejected", json |-> "none", length |-> -1]
  ELSE LET parsed == JSONParse(StripFence(raw))
       IN  IF parsed.ok
           THEN [kind |-> "value", json |-> parsed.json, length |-> parsed.length]
           ELSE [kind |-> "value", json |-> "array", length |-> 0]

\* the % of JavaScript: the sign of the dividend
JSRem(a, n) == IF a >= 0 THEN a % n ELSE 0 - ((0 - a) % n)

QuizRuleFiresFromN(messageCount) == messageCount >= TRIGGER_EVERY_N_MESSAGES

\* QuizRuleTrigger.onTurn: the gate that lets generation run
QuizRuleFires(messageCount) ==
  ~(messageCount <= 0 \/ JSRem(messageCount, TRIGGER_EVERY_N_MESSAGES) # 0)

NullResult == [status |-> "fulfilled", event |-> "null", json |-> "none", length |-> -1]
RejectedResult == [status |-> "rejected", event |-> "null", json |-> "none", length |-> -1]

\* QuizRuleTrigger.onTurn as Promise.allSettled sees it. Reading .length of
\* null throws; undefined === 0 is false.
QuizRuleOnTurn(messageCount, raw) ==
  IF ~QuizRuleFires(messageCount) THEN NullResult
  ELSE LET questions == generateQuiz(raw)
       IN  IF questions.kind = "rejected" \/ questions.json = "null"
           THEN RejectedResult
           ELSE IF questions.length = 0 THEN NullResult
           ELSE [status |-> "fulfilled", event |-> "quiz",
                 json |-> questions.json, length |-> questions.length]

IsEvent(r) == r.status = "fulfilled" /\ r.event # "null"

\* what Promise.all in place of Promise.allSettled would do
processTurnAll(results) ==
  IF \E k \in DOMAIN results : results[k].status = "rejected"
  THEN [status |-> "rejected", events |-> <<>>]
  ELSE [status |-> "fulfilled", events |-> SelectSeq(results, IsEvent)]

\* EventEngine.processTurn on the settled results of the triggers' onTurn
processTurn(results) ==
  [status |-> "fulfilled", events |-> SelectSeq(results, IsEvent)]

\* the process-wide engine of ws-handler.ts
eventEngine == <<"quiz-rule">>

\* an early return that tests the session only
TurnSkippedWithoutSession(sid, transcript) == sid = 0

\* saveTurnAndDispatchEvents returns at once
TurnSkipped(sid, transcript) == sid = 0 \/ transcript = 0

\* some registered trigger reaches its network call for this count
TurnSuspends(count) == \E i \in DOMAIN eventEngine : QuizRuleFires(count)

\* for (const event of events) await dispatchEvent(event)
RECURSIVE SaveQuizzes(_, _, _)
SaveQuizzes(qz, sid, events) ==
  IF events = <<>> THEN qz
  ELSE SaveQuizzes(saveQuiz(qz, sid, [json |-> Head(events).json,
                                      length |-> Head(events).length]),
                   sid, Tail(events))

QuizMessages(events) == [i \in DOMAIN events |-> "quiz"]

Remove(seq, i) == SubSeq(seq, 1, i - 1) \o SubSeq(seq, i + 1, Len(seq))

Persisted(msgs, u) ==
  \E k \in DOMAIN msgs : msgs[k].role = "user" /\ msgs[k].content = u

\* addMessage(user), addMessage(assistant) of saveTurnAndDispatchEvents
SaveTurn(msgs, sid, transcript, aiMessage) ==
  addMessage(addMessage(msgs, sid, "user", transcript), sid, "assistant", aiMessage)

\* ------------------------------------------------------- session lifecycle
\* ws.on("message") with a parsed { type: "init", personaId, ttsMode }
InitCmd(mode) ==
  /\ wsOpen /\ ~TimerDue
  /\ LET g == geminiSession
         h == Len(sessions) + 1
         closed == IF g # 0 /\ live[g] = "open"
                   THEN [live EXCEPT ![g] = "closing"] ELSE live
     IN  /\ live' = [closed EXCEPT ![h] = "connecting"]
         /\ liveMode' = [liveMode EXCEPT ![h] = mode]
         /\ geminiSession' = 0
         /\ sessionId' = h
         /\ ttsMode' = mode
         /\ sessions' = Append(sessions, h)
         /\ step' = [NoStep EXCEPT !.op = "init"]
  /\ UNCHANGED <<wsOpen, currentUserTranscript, isActivityActive, silenceTimer>>
  /\ UNCHANGED <<currentTextTurn, nextUtter, messages, quizzes, contVars>>
  /\ UNCHANGED <<activityLog, sinceLoud>>

\* the awaited createLiveSession / createTextLiveSession resolves
InitResume(h) ==
  /\ live[h] = "connecting" /\ ~TimerDue
  /\ live' = [live EXCEPT ![h] = "open"]
  /\ geminiSession' = h
  /\ step' = [NoStep EXCEPT !.op = "init_resume", !.ready = sessionId,
                            !.sent = send(wsOpen, <<"session_ready",
                                                    "avatar_state:listening">>)]
  /\ UNCHANGED <<wsOpen, sessionId, ttsMode, currentUserTranscript,
                 isActivityActive, silenceTimer>>
  /\ UNCHANGED <<liveMode, currentTextTurn, nextUtter, dbVars, contVars>>
  /\ UNCHANGED <<activityLog, sinceLoud>>

\* the awaited create call rejects: the catch block of case "init"
InitFail(h) ==
  /\ live[h] = "connecting" /\ ~TimerDue
  /\ live' = [live EXCEPT ![h] = "failed"]
  /\ step' = [NoStep EXCEPT !.op = "init_fail",
                            !.sent = send(wsOpen, <<"error">>)]
  /\ UNCHANGED <<connVars, liveMode, currentTextTurn, nextUtter, dbVars, contVars>>
  /\ UNCHANGED <<activityLog, sinceLoud>>

\* the provider ends a session: the socket is no longer open, onclose follows
ProviderCloses(h) ==
  /\ live[h] = "open" /\ ~TimerDue
  /\ live' = [live EXCEPT ![h] = "closing"]
  /\ step' = [NoStep EXCEPT !.op = "provider_closes"]
  /\ UNCHANGED <<connVars, liveMode, currentTextTurn, nextUtter, dbVars, contVars>>
  /\ UNCHANGED <<activityLog, sinceLoud>>

\* callbacks.onClose of either mode, for a session closed by either side
OnClose(h) ==
  /\ live[h] = "closing" /\ ~TimerDue
  /\ live' = [live EXCEPT ![h] = "closed"]
  /\ geminiSession' = 0
  /\ step' = [NoStep EXCEPT !.op = "on_close"]
  /\ UNCHANGED <<wsOpen, sessionId, ttsMode, currentUserTranscript,
                 isActivityActive, silenceTimer>>
  /\ UNCHANGED <<liveMode, currentTextTurn, nextUtter, dbVars, contVars>>
  /\ UNCHANGED <<activityLog, sinceLoud>>

\* callbacks.onError of either mode
OnError(h) ==
  /\ live[h] = "open" /\ ~TimerDue
  /\ step' = [NoStep EXCEPT !.op = "on_error",
                            !.sent = send(wsOpen, <<"error", "avatar_state:idle">>)]
  /\ UNCHANGED <<connVars, provVars, dbVars, contVars>>
  /\ UNCHANGED <<activityLog, sinceLoud>>

\* ws.on("close")
WsClose ==
  /\ wsOpen /\ ~TimerDue
  /\ wsOpen' = FALSE
  /\ silenceTimer' = -1
  /\ live' = IF geminiSession # 0 /\ live[geminiSession] = "open"
             THEN [live EXCEPT ![geminiSession] = "closing"] ELSE live
  /\ geminiSession' = 0
  /\ step' = [NoStep EXCEPT !.op = "ws_close"]
  /\ UNCHANGED <<sessionId, ttsMode, currentUserTranscript, isActivityActive>>
  /\ UNCHANGED <<liveMode, currentTextTurn, nextUtter, dbVars, contVars>>
  /\ UNCHANGED <<activityLog, sinceLoud>>

\* ------------------------------------------------------- provider callbacks
\* onmessage of createLiveSession (audio mode) for one server message: audio
\* parts, then turnComplete, then a finished input transcription, in the
\* order of the code. onAudioChunk(done) runs up to its first await before
\* onTranscript is called; when no trigger reaches a network call its
\* remainder runs in the microtasks right after the message callback.
LiveMessage(h, parts, tc, tr) ==
  /\ live[h] = "open" /\ liveMode[h] = "gemini" /\ ~TimerDue
  /\ parts \/ tc \/ tr
  /\ LET u == nextUtter + 1
         saved == tc /\ ~TurnSkipped(sessionId, currentUserTranscript)
         msgs1 == IF saved
                  THEN SaveTurn(messages, sessionId, currentUserTranscript, "[audio]")
                  ELSE messages
         count == getUserMessageCount(msgs1, sessionId)
         susp == saved /\ TurnSuspends(count)
         finish == tc /\ ~susp
     IN  /\ messages' = msgs1
         /\ pendingQuiz' = IF susp
                           THEN Append(pendingQuiz,
                                       [mode |-> "gemini", messageCount |-> count])
                           ELSE pendingQuiz
         /\ currentUserTranscript' = IF finish THEN 0
                                     ELSE IF tr THEN u ELSE currentUserTranscript
         /\ isActivityActive' = IF finish THEN FALSE ELSE isActivityActive
         /\ silenceTimer' = IF finish THEN -1 ELSE silenceTimer
         /\ nextUtter' = IF tr THEN u ELSE nextUtter
         /\ step' = [NoStep EXCEPT
              !.op = IF tc THEN "response_complete" ELSE "provider_message",
              !.was = isActivityActive, !.held = geminiSession # 0,
              !.sent = send(wsOpen,
                 (IF parts THEN <<"ai_audio", "avatar_state:speaking">> ELSE <<>>)
                 \o (IF tc THEN <<"ai_audio:done", "avatar_state:listening">> ELSE <<>>)
                 \o (IF tr THEN <<"transcript", "avatar_state:thinking">> ELSE <<>>))]
  /\ UNCHANGED <<wsOpen, sessionId, ttsMode, geminiSession>>
  /\ UNCHANGED <<live, liveMode, currentTextTurn, sessions, quizzes, pendingTTS>>
  /\ UNCHANGED <<activityLog, sinceLoud>>

\* onmessage of createTextLiveSession (text mode) for one server message: text
\* parts accumulate, turnComplete emits the trimmed text if it is not empty
\* (onTextResponse runs up to its await of supertoneTextToSpeech), then a
\* finished input transcription
TextLiveMessage(h, text, tc, tr) ==
  /\ live[h] = "open" /\ liveMode[h] = "supertone" /\ ~TimerDue
  /\ text \/ tc \/ tr
  /\ LET u == nextUtter + 1
         acc == currentTextTurn[h] \/ text
         respond == tc /\ acc
     IN  /\ currentTextTurn' = [currentTextTurn EXCEPT ![h] = IF tc THEN FALSE ELSE acc]
         /\ pendingTTS' = IF respond THEN Append(pendingTTS, "tts") ELSE pendingTTS
         /\ currentUserTranscript' = IF tr THEN u ELSE currentUserTranscript
         /\ nextUtter' = IF tr THEN u ELSE nextUtter
         /\ step' = [NoStep EXCEPT
              !.op = IF respond THEN "text_response"
                     ELSE IF tc THEN "text_turn_complete" ELSE "provider_message",
              !.sent = send(wsOpen,
                 (IF respond THEN <<"ai_text", "avatar_state:speaking">> ELSE <<>>)
                 \o (IF tr THEN <<"transcript", "avatar_state:thinking">> ELSE <<>>))]
  /\ UNCHANGED <<wsOpen, sessionId, ttsMode, geminiSession, isActivityActive,
                 silenceTimer>>
  /\ UNCHANGED <<live, liveMode, dbVars, pendingQuiz>>
  /\ UNCHANGED <<activityLog, sinceLoud>>

\* onTextResponse resumes from supertoneTextToSpeech (resolved or rejected)
\* and runs saveTurnAndDispatchEvents(text) up to a trigger's network call
TTSResume(i, ok) ==
  /\ i \in DOMAIN pendingTTS /\ ~TimerDue
  /\ LET saved == ~TurnSkipped(sessionId, currentUserTranscript)
         msgs1 == IF saved
                  THEN SaveTurn(messages, sessionId, currentUserTranscript, "text")
                  ELSE messages
         count == getUserMessageCount(msgs1, sessionId)
         susp == saved /\ TurnSuspends(count)
     IN  /\ messages' = msgs1
         /\ pendingTTS' = Remove(pendingTTS, i)
         /\ pendingQuiz' = IF susp
                           THEN Append(pendingQuiz,
                                       [mode |-> "supertone", messageCount |-> count])
                           ELSE pendingQuiz
         /\ currentUserTranscript' = IF susp THEN currentUserTranscript ELSE 0
         /\ step' = [NoStep EXCEPT
              !.op = "tts_resume",
              !.sent = send(wsOpen,
                 (IF ok THEN <<"ai_audio", "ai_audio:done">> ELSE <<"error">>)
                 \o <<"avatar_state:listening">>)]
  /\ UNCHANGED <<wsOpen, sessionId, ttsMode, geminiSession, isActivityActive,
                 silenceTimer>>
  /\ UNCHANGED <<provVars, sessions, quizzes>>
  /\ UNCHANGED <<activityLog, sinceLoud>>

\* generateQuiz settles: the triggers' onTurn settle, processTurn returns,
\* the events are dispatched and the response-complete callback finishes
QuizResume(i, raw) ==
  /\ i \in DOMAIN pendingQuiz /\ ~TimerDue
  /\ LET pq == pendingQuiz[i]
         results == [k \in DOMAIN eventEngine |-> QuizRuleOnTurn(pq.messageCount, raw)]
         events == processTurn(results).events
         audio == pq.mode = "gemini"
     IN  /\ quizzes' = SaveQuizzes(quizzes, sessionId, events)
         /\ pendingQuiz' = Remove(pendingQuiz, i)
         /\ currentUserTranscript' = 0
         /\ isActivityActive' = IF audio THEN FALSE ELSE isActivityActive
         /\ silenceTimer' = IF audio THEN -1 ELSE silenceTimer
         /\ step' = [NoStep EXCEPT !.op = "quiz_resume",
                                   !.sent = send(wsOpen, QuizMessages(events))]
  /\ UNCHANGED <<wsOpen, sessionId, ttsMode, geminiSession>>
  /\ UNCHANGED <<provVars, sessions, messages, pendingTTS>>
  /\ UNCHANGED <<activityLog, sinceLoud>>

\* ------------------------------------------------------------ the connection
InitConn ==
  /\ wsOpen = TRUE
  /\ sessionId = 0
  /\ ttsMode = "gemini"
  /\ geminiSession = 0
  /\ currentUserTranscript = 0
  /\ isActivityActive = FALSE
  /\ silenceTimer = -1
  /\ live = [h \in Handles |-> "none"]
  /\ liveMode = [h \in Handles |-> "gemini"]
  /\ currentTextTurn = [h \in Handles |-> FALSE]
  /\ nextUtter = 0
  /\ sessions = <<>>
  /\ messages = <<>>
  /\ quizzes = <<>>
  /\ pendingTTS = <<>>
  /\ pendingQuiz = <<>>
  /\ step = NoStep
  /\ activityLog = [prev |-> "none", last |-> "none"]
  /\ sinceLoud = SILENCE_TIMEOUT_MS

InitIdle ==
  /\ heard = 0 /\ ttsHeard = <<>> /\ lost = {}
  /\ triggers = <<>>
  /\ engineOut = [messageCount |-> 0, raws |-> <<>>, fired |-> <<>>,
                  results |-> <<>>, status |-> "none", events |-> <<>>]
  /\ runs = 0 /\ starts = 0 /\ ends = 0 /\ terminated = 0
  /\ turnsDone = 0
  /\ clock = 0 /\ stamps = <<>>
  /\ readOut = [sid |-> 0, limit |-> 0, size |-> 0, rows |-> <<>>]
  /\ lastTriggeredAt = NegInfinity
  /\ agentCalls = <<>>
  /\ agentOut = [sid |-> 0, messageCount |-> 0, decision |-> "none", raw |-> "none",
                 seen |-> NegInfinity, alone |-> NegInfinity, prev |-> NegInfinity,
                 before |-> NegInfinity, event |-> "none", length |-> -1]
  /\ ownLast = [h \in Handles |-> NegInfinity]
  /\ prompt = [sid |-> 0, history |-> <<>>, lines |-> <<>>]

Init == InitConn /\ InitIdle

idle == <<engineVars, scenVars, auxVars>>

\* the bounds of a behaviour, as guards on the environment's choices
MayInit == Len(sessions) < MaxInit
Utterances == IF nextUtter < MaxUtter THEN BOOLEAN ELSE {FALSE}
MayAwaitTTS == Len(pendingTTS) < MaxPending
MayAwaitQuiz == Len(pendingQuiz) < MaxPending

\* One connection from its construction, with at most MaxUtter utterances: no
\* session reaches the TRIGGER_EVERY_N_MESSAGES-th user message, so no turn
\* completion is suspended in quiz generation (SpecTurns covers those).
Next ==
  \/ \E mode \in Modes : MayInit /\ InitCmd(mode) /\ UNCHANGED idle
  \/ \E h \in Handles : InitResume(h) /\ UNCHANGED idle
  \/ \E h \in Handles : InitFail(h) /\ UNCHANGED idle
  \/ \E buf \in Frames : AudioChunk(buf) /\ UNCHANGED idle
  \/ SilenceTimerFires /\ UNCHANGED idle
  \/ Tick(SILENCE_TIMEOUT_MS) /\ UNCHANGED idle
  \/ ForceCommit /\ UNCHANGED idle
  \/ \E h \in Handles, parts, tc \in BOOLEAN, tr \in Utterances :
       LiveMessage(h, parts, tc, tr) /\ UNCHANGED idle
  \/ \E h \in Handles, text, tc \in BOOLEAN, tr \in Utterances :
       (tc => MayAwaitTTS) /\ TextLiveMessage(h, text, tc, tr) /\ UNCHANGED idle
  \/ \E i \in 1..MaxPending, ok \in BOOLEAN : TTSResume(i, ok) /\ UNCHANGED idle
  \/ \E h \in Handles : ProviderCloses(h) /\ UNCHANGED idle
  \/ \E h \in Handles : OnClose(h) /\ UNCHANGED idle
  \/ \E h \in Handles : OnError(h) /\ UNCHANGED idle
  \/ WsClose /\ UNCHANGED idle

Spec == Init /\ [][Next]_vars

\* ------------------------------------------- the activity-detection scenario
\* A connection whose init has succeeded: what InitCmd(mode) and InitResume(1)
\* leave behind.
InitReady(mode) ==
  /\ wsOpen = TRUE
  /\ sessionId = 1
  /\ ttsMode = mode
  /\ geminiSession = 1
  /\ currentUserTranscript = 0
  /\ isActivityActive = FALSE
  /\ silenceTimer = -1
  /\ live = [h \in Handles |-> IF h = 1 THEN "open" ELSE "none"]
  /\ liveMode = [h \in Handles |-> IF h = 1 THEN mode ELSE "gemini"]
  /\ currentTextTurn = [h \in Handles |-> FALSE]
  /\ nextUtter = 0
  /\ sessions = <<1>>
  /\ messages = <<>>
  /\ quizzes = <<>>
  /\ pendingTTS = <<>>
  /\ pendingQuiz = <<>>
  /\ step = NoStep
  /\ activityLog = [prev |-> "none", last |-> "none"]
  /\ sinceLoud = SILENCE_TIMEOUT_MS

InitVAD == (\E mode \in Modes : InitReady(mode)) /\ InitIdle

vadIdle == <<engineVars, heard, ttsHeard, lost, turnsDone, auxVars>>

\* an above-threshold frame begins a run when the gap since the previous one
\* has reached the silence timeout (or there was none)
BeginsRun(buf) == EnergyAboveThreshold(buf) /\ sinceLoud >= SILENCE_TIMEOUT_MS

VadFrame(buf) ==
  /\ BeginsRun(buf) => runs < MaxRuns
  /\ AudioChunk(buf)
  /\ runs' = IF BeginsRun(buf) THEN runs + 1 ELSE runs
  /\ starts' = IF step'.sig = "start" THEN starts + 1 ELSE starts
  /\ UNCHANGED <<ends, terminated, vadIdle>>

VadTimer ==
  /\ SilenceTimerFires
  /\ ends' = IF step'.sig = "end" THEN ends + 1 ELSE ends
  /\ UNCHANGED <<runs, starts, terminated, vadIdle>>

\* the run terminates when the gap reaches the silence timeout
VadTick ==
  /\ Tick(TickMs)
  /\ terminated' = IF sinceLoud < SILENCE_TIMEOUT_MS /\ sinceLoud' >= SILENCE_TIMEOUT_MS
                   THEN terminated + 1 ELSE terminated
  /\ UNCHANGED <<runs, starts, ends, vadIdle>>

NextVAD ==
  \/ \E buf \in Frames : VadFrame(buf)
  \/ VadTimer
  \/ VadTick

\* Only audio frames and the silence timer, on an open provider session.
SpecVAD == InitVAD /\ [][NextVAD]_vars

\* C1: with only frames and timer firings on an open session, the provider
\* gets exactly one start per maximal run of above-threshold frames (starts =
\* runs), exactly one end per terminated run (the end of a run that has just
\* terminated is sent by the timer callback that is due), and the signals
\* alternate: no two consecutive signals of the same kind.
C1_OneStartOneEndPerRun ==
  /\ starts = runs
  /\ terminated = ends + (IF TimerDue THEN 1 ELSE 0)
  /\ activityLog.last # "none" => activityLog.prev # activityLog.last
  /\ activityLog.last = "start" <=> (sinceLoud < SILENCE_TIMEOUT_MS \/ TimerDue)

C1_Witness ==
  /\ runs = 2 /\ starts = 2 /\ ends = 2 /\ terminated = 2
  /\ step.op = "timer" /\ step.sig = "end"

\* C2: no two start signals are sent to the provider without an end signal
\* sent between them.
C2_NoTwoStartsWithoutEnd ==
  ~(activityLog.prev = "start" /\ activityLog.last = "start")

\* C5: a connection has at most one open provider session at every moment.
C5_AtMostOneOpenSession ==
  Cardinality({h \in Handles : live[h] = "open"}) <= 1

SessionOpen == geminiSession # 0 /\ live[geminiSession] = "open"

\* C9: with a provider session open, a frame is forwarded iff the activity
\* state is active once the energy transition of that frame is applied: a
\* frame received while active is forwarded whatever its energy, a frame that
\* leaves the state inactive is not.
C9_ForwardedIffActive ==
  (step.op = "audio_chunk" /\ SessionOpen) =>
    /\ step.fwd <=> isActivityActive
    /\ step.was => step.fwd
    /\ (~step.was /\ ~step.loud) => ~step.fwd

C9_Witness ==
  /\ step.op = "audio_chunk" /\ SessionOpen
  /\ step.was /\ ~step.loud /\ step.fwd

\* C10: force_commit while inactive sends no end signal, raises and reports
\* no error, and leaves the state inactive with no timeout pending.
C10_ForceCommitInactiveNoOp ==
  (step.op = "force_commit" /\ ~step.was) =>
    /\ step.sig = "none"
    /\ ~step.threw
    /\ \A k \in DOMAIN step.sent : step.sent[k] # "error"
    /\ ~isActivityActive
    /\ silenceTimer = -1

C10_Witness ==
  step.op = "force_commit" /\ ~step.was /\ step.held /\ SessionOpen

\* --------------------------------------------- the turn-completion scenario
turnsIdle == <<engineVars, runs, starts, ends, terminated, turnsDone, auxVars>>

TurnUtterances == IF nextUtter < MaxTurnUtter THEN BOOLEAN ELSE {FALSE}

\* heard: the utterance the transcript callback delivered since the last
\* response-complete callback. lost: an utterance that was heard when a
\* response-complete callback ran its persistence step and is in no user
\* message afterwards.
TurnsLive(h, parts, tc, tr) ==
  /\ LiveMessage(h, parts, tc, tr)
  /\ Len(pendingQuiz') <= MaxPending
  /\ lost' = IF tc /\ heard # 0 /\ ~Persisted(messages', heard)
             THEN lost \cup {heard} ELSE lost
  /\ heard' = IF tr THEN nextUtter' ELSE IF tc THEN 0 ELSE heard
  /\ UNCHANGED <<ttsHeard, turnsIdle>>

TurnsText(h, text, tc, tr) ==
  /\ TextLiveMessage(h, text, tc, tr)
  /\ Len(pendingTTS') <= MaxPending
  /\ LET respond == Len(pendingTTS') > Len(pendingTTS)
     IN  /\ ttsHeard' = IF respond THEN Append(ttsHeard, heard) ELSE ttsHeard
         /\ heard' = IF tr THEN nextUtter' ELSE IF respond THEN 0 ELSE heard
  /\ UNCHANGED <<lost, turnsIdle>>

TurnsTTS(i, ok) ==
  /\ TTSResume(i, ok)
  /\ Len(pendingQuiz') <= MaxPending
  /\ lost' = IF ttsHeard[i] # 0 /\ ~Persisted(messages', ttsHeard[i])
             THEN lost \cup {ttsHeard[i]} ELSE lost
  /\ ttsHeard' = Remove(ttsHeard, i)
  /\ UNCHANGED <<heard, turnsIdle>>

TurnsQuiz(i, raw) ==
  /\ QuizResume(i, raw)
  /\ UNCHANGED <<heard, ttsHeard, lost, turnsIdle>>

InitTurns == (\E mode \in Modes : InitReady(mode)) /\ InitIdle

NextTurns ==
  \/ \E h \in Handles, parts, tc \in BOOLEAN, tr \in TurnUtterances :
       TurnsLive(h, parts, tc, tr)
  \/ \E h \in Handles, text, tc \in BOOLEAN, tr \in TurnUtterances :
       TurnsText(h, text, tc, tr)
  \/ \E i \in 1..MaxPending, ok \in BOOLEAN : TurnsTTS(i, ok)
  \/ \E i \in 1..MaxPending, raw \in GenOutputs : TurnsQuiz(i, raw)

\* The provider callbacks of one open session and the resumptions of the
\* turn completions they start, in any order.
SpecTurns == InitTurns /\ [][NextTurns]_vars

\* C3: no turn is lost: an utterance the transcript callback delivered, whose
\* turn a response-complete callback then completes, is persisted as a user
\* message.
C3_NoTurnLost == lost = {}

UserRows(u) ==
  {k \in DOMAIN messages : messages[k].role = "user" /\ messages[k].content = u}

\* C4: no turn is duplicated: an utterance results in at most one persisted
\* (user message, assistant message) pair.
C4_NoTurnDuplicated ==
  \A u \in 1..nextUtter : Cardinality(UserRows(u)) <= 1

\* ------------------------------------------------------- the event engine
engineIdle == <<connVars, provVars, dbVars, contVars, obsVars, scenVars, auxVars>>

\* EventEngine.register
Register(name) ==
  /\ triggers' = Append(triggers, name)
  /\ UNCHANGED <<engineOut, engineIdle>>

\* EventEngine.processTurn over the registered triggers: raws[k] is what the
\* generation call of trigger k would return for this turn.
EngineProcessTurn(messageCount, raws) ==
  LET results == [k \in DOMAIN triggers |-> QuizRuleOnTurn(messageCount, raws[k])]
      out == processTurn(results)
  IN  /\ engineOut' = [messageCount |-> messageCount,
                       raws |-> raws,
                       fired |-> [k \in DOMAIN triggers |-> QuizRuleFires(messageCount)],
                       results |-> results,
                       status |-> out.status,
                       events |-> out.events]
      /\ UNCHANGED <<triggers, engineIdle>>

Counts == (0 - MaxCount)..MaxCount

\* the generation call is made only by a trigger whose gate fired
RawChoices(messageCount) ==
  IF QuizRuleFires(messageCount) THEN GenOutputs ELSE {"unused"}

NextEngine ==
  \/ /\ Len(triggers) < MaxTriggers
     /\ \E name \in {"quiz-rule"} : Register(name)
  \/ \E messageCount \in Counts :
       \E raws \in [DOMAIN triggers -> RawChoices(messageCount)] :
         EngineProcessTurn(messageCount, raws)

\* An engine with zero to MaxTriggers registered triggers, asked to process
\* turns with any message count and any generation outcome.
SpecEngine == Init /\ [][NextEngine]_vars

Delivered == {k \in DOMAIN engineOut.results : IsEvent(engineOut.results[k])}

\* C6: processTurn does not fail when a trigger fails; it returns exactly the
\* non-null events of the triggers that did not fail, and nothing when no
\* trigger is registered.
C6_ProcessTurnIsolatesFailures ==
  engineOut.status # "none" =>
    /\ engineOut.status = "fulfilled"
    /\ Len(engineOut.events) = Cardinality(Delivered)
    /\ \A j \in DOMAIN engineOut.events :
         \E k \in Delivered : engineOut.results[k] = engineOut.events[j]
    /\ (Len(engineOut.results) = 0 => engineOut.events = <<>>)

C6_Witness ==
  /\ Len(engineOut.results) = 2
  /\ engineOut.results[1].status = "rejected"
  /\ IsEvent(engineOut.results[2])
  /\ Len(engineOut.events) = 1

PositiveMultipleOfN(c) ==
  c > 0 /\ \E j \in 1..MaxCount : c = j * TRIGGER_EVERY_N_MESSAGES

QuestionsIn(raw) ==
  CASE raw = "[q]" -> 1
    [] raw = "[q,q]" -> 2
    [] raw = "fence[q]fence" -> 1
    [] OTHER -> 0

\* C7: the rule trigger fires exactly when the message count is a positive
\* multiple of N, and emits a quiz event exactly when it fired and the
\* generation yielded at least one question.
C7_RuleTriggerFiresAndEmits ==
  \A k \in DOMAIN engineOut.results :
    /\ engineOut.fired[k] <=> PositiveMultipleOfN(engineOut.messageCount)
    /\ IsEvent(engineOut.results[k]) <=>
         /\ PositiveMultipleOfN(engineOut.messageCount)
         /\ QuestionsIn(engineOut.raws[k]) >= 1

\* --------------------------------------------------- the end-to-end scenario
e2eIdle == <<engineVars, heard, ttsHeard, lost, runs, starts, ends, terminated, auxVars>>

TurnIdle == currentUserTranscript = 0 /\ pendingTTS = <<>> /\ pendingQuiz = <<>>

\* the client opens one session
E2EInit(mode) ==
  /\ sessions = <<>>
  /\ InitCmd(mode)
  /\ UNCHANGED <<turnsDone, e2eIdle>>

E2EReady ==
  /\ InitResume(1)
  /\ UNCHANGED <<turnsDone, e2eIdle>>

\* client audio and its timers, at any moment
E2EAudio ==
  /\ \/ \E buf \in Frames : AudioChunk(buf)
     \/ SilenceTimerFires
     \/ Tick(SILENCE_TIMEOUT_MS)
  /\ UNCHANGED <<turnsDone, e2eIdle>>

\* the provider delivers the transcript of the next user utterance
E2ETranscript ==
  /\ geminiSession # 0 /\ TurnIdle
  /\ turnsDone < MaxE2ETurns
  /\ \/ /\ liveMode[geminiSession] = "gemini"
        /\ LiveMessage(geminiSession, FALSE, FALSE, TRUE)
     \/ /\ liveMode[geminiSession] = "supertone"
        /\ TextLiveMessage(geminiSession, FALSE, FALSE, TRUE)
  /\ UNCHANGED <<turnsDone, e2eIdle>>

\* the provider streams the response; in audio mode its completion completes
\* the turn
E2EResponse ==
  /\ geminiSession # 0 /\ currentUserTranscript # 0
  /\ pendingTTS = <<>> /\ pendingQuiz = <<>>
  /\ \/ /\ liveMode[geminiSession] = "gemini"
        /\ \E parts, tc \in BOOLEAN :
             /\ parts \/ tc
             /\ LiveMessage(geminiSession, parts, tc, FALSE)
             /\ turnsDone' = IF tc THEN turnsDone + 1 ELSE turnsDone
     \/ /\ liveMode[geminiSession] = "supertone"
        /\ \E tc \in BOOLEAN :
             /\ TextLiveMessage(geminiSession, TRUE, tc, FALSE)
             /\ UNCHANGED turnsDone
  /\ UNCHANGED e2eIdle

\* text mode: the synthesis call returns and the turn completes
E2ESynthesised ==
  /\ TTSResume(1, TRUE)
  /\ turnsDone' = turnsDone + 1
  /\ UNCHANGED e2eIdle

\* the quiz generation call returns at least one question
E2EQuiz ==
  /\ \E raw \in {"[q]", "[q,q]", "fence[q]fence"} : QuizResume(1, raw)
  /\ UNCHANGED <<turnsDone, e2eIdle>>

NextE2E ==
  \/ \E mode \in Modes : E2EInit(mode)
  \/ E2EReady
  \/ E2EAudio
  \/ E2ETranscript
  \/ E2EResponse
  \/ E2ESynthesised
  \/ E2EQuiz

\* One session whose turns complete one after the other, each with a
\* non-empty transcript, every external call succeeding.
SpecE2E == Init /\ [][NextE2E]_vars

QuizzesSent == {k \in DOMAIN step.sent : step.sent[k] = "quiz"}

\* C8: a quiz message is sent to the client after the k-th completed turn of
\* a session exactly when k is a positive multiple of 5: none after turns
\* 1..4, one after turn 5, none after 6..9, one after turn 10.
C8_QuizEveryFifthTurn ==
  /\ QuizzesSent # {} =>
       /\ step.op = "quiz_resume"
       /\ turnsDone > 0
       /\ turnsDone % TRIGGER_EVERY_N_MESSAGES = 0
       /\ Cardinality(QuizzesSent) = 1
  /\ step.op = "quiz_resume" => QuizzesSent # {}
  /\ Len(quizzes) + Len(pendingQuiz) = turnsDone \div TRIGGER_EVERY_N_MESSAGES

C8_Witness ==
  /\ turnsDone = 2 * TRIGGER_EVERY_N_MESSAGES
  /\ Len(quizzes) = 2
  /\ QuizzesSent # {}

\* ----------------------------------------------- activity state and lifecycle
\* C11: force_commit received while the activity state is active cancels the
\* pending silence timeout, sets the state to inactive and sends exactly one
\* end signal; with the timeout cancelled no later end follows for it.
C11_ForceCommitActiveEnds ==
  (step.op = "force_commit" /\ step.was) =>
    /\ step.sig = "end"
    /\ ~isActivityActive
    /\ silenceTimer = -1

\* what C11 states, for a force_commit handled while a provider session is held
ForceCommitActiveEndsWhenHeld ==
  (step.op = "force_commit" /\ step.was /\ step.held) =>
    /\ step.sig = "end"
    /\ ~isActivityActive
    /\ silenceTimer = -1

\* C12: when the processing of a provider turn completion has run, in audio
\* mode (response_complete) and in text mode (tts_resume), the activity state
\* is inactive and no silence timeout is pending.
C12_TurnCompletionResetsActivity ==
  (step.op \in {"response_complete", "tts_resume"} /\ pendingQuiz = <<>>) =>
    /\ ~isActivityActive
    /\ silenceTimer = -1

\* C14: the silence timeout firing while the activity state is active leaves
\* the state inactive, whatever has become of the provider session.
C14_TimerFiringEndsActivity ==
  (step.op = "timer" /\ step.was) => ~isActivityActive

\* C15: no failure of a start signal, an end signal or a forwarded frame
\* escapes the handler that sent it.
C15_SignalFailuresSwallowed ==
  step.op \in {"audio_chunk", "timer", "force_commit"} => ~step.threw

\* C16: once the provider session of an init command is open, the activity
\* state is inactive and no silence timeout is pending.
C16_InitDestroysActivityState ==
  step.op = "init_resume" =>
    /\ ~isActivityActive
    /\ silenceTimer = -1

Count(seq, m) == Cardinality({k \in DOMAIN seq : seq[k] = m})

\* C18: when the provider open of an init fails, the client is sent an error
\* and no session_ready, the connection holds no provider session and no new
\* open is started.
C18_OpenFailureIsRecoverable ==
  (step.op = "init_fail" /\ wsOpen) =>
    /\ Count(step.sent, "error") = 1
    /\ Count(step.sent, "session_ready") = 0
    /\ geminiSession = 0

\* C20: on a session-level failure (the provider error callback, a failed
\* provider open) the client is sent exactly one error and the avatar state
\* idle.
C20_SessionFailureResetsAvatar ==
  (step.op \in {"on_error", "init_fail"} /\ wsOpen) =>
    /\ Count(step.sent, "error") = 1
    /\ Count(step.sent, "avatar_state:idle") = 1

\* the response-complete callback of audio mode has run and its turn
\* completion has not yet reached the reset of the activity state
AudioCompletionPending ==
  \E i \in DOMAIN pendingQuiz : pendingQuiz[i].mode = "gemini"

\* C13: between the response-complete callback and the reset of the activity
\* state that ends its processing, no start signal is sent and no audio frame
\* is forwarded to the provider.
C13_CompletionSequentialToFrames ==
  (step.op = "audio_chunk" /\ AudioCompletionPending) =>
    /\ step.sig = "none"
    /\ ~step.fwd

\* ------------------------------------------------- malformed client messages
BadKinds == {"not_json", "null", "array", "unknown_type", "audio_no_data"}

\* JSON.parse(raw.toString()) and the type the switch reads off the value
ParseClientMessage(kind) ==
  [ok |-> kind # "not_json",
   isNull |-> kind = "null",
   type |-> CASE kind = "audio_no_data" -> "audio_chunk"
              [] kind = "unknown_type" -> "unknown"
              [] OTHER -> "undefined"]

\* ws.on("message") with a payload that is no well-formed client message.
\* Reading .type of null throws, and so does Buffer.from(undefined, "base64")
\* in calcPCMRMS; the handler is async and has no catch around its switch.
BadMessage(kind) ==
  /\ wsOpen /\ ~TimerDue
  /\ LET m == ParseClientMessage(kind)
         threw == m.ok /\ (m.isNull \/ (m.type = "audio_chunk" /\ geminiSession # 0))
         reply == IF ~m.ok THEN <<"error">>
                  ELSE IF threw \/ m.type = "audio_chunk" THEN <<>>
                  ELSE <<"error">>
     IN  step' = [NoStep EXCEPT !.op = "bad_message",
                                !.held = geminiSession # 0,
                                !.sent = send(wsOpen, reply),
                                !.threw = threw]
  /\ UNCHANGED <<connVars, provVars, dbVars, contVars, activityLog, sinceLoud>>

\* ------------------------------------------------- the connection lifecycle
NoOpenPending == \A h \in Handles : live[h] # "connecting"

LifeInit(mode) ==
  /\ MayInit /\ NoOpenPending
  /\ InitCmd(mode)
  /\ UNCHANGED idle

LifeOpened == \E h \in Handles : InitResume(h) /\ UNCHANGED idle

LifeOpenFailed == \E h \in Handles : InitFail(h) /\ UNCHANGED idle

LifeAudio ==
  /\ \/ \E buf \in Frames : AudioChunk(buf)
     \/ Tick(SILENCE_TIMEOUT_MS)
     \/ ForceCommit
  /\ UNCHANGED idle

LifeTimer == SilenceTimerFires /\ UNCHANGED idle

LifeBadMessage == \E kind \in BadKinds : BadMessage(kind) /\ UNCHANGED idle

LifeProvider ==
  /\ \E h \in Handles : ProviderCloses(h) \/ OnError(h)
  /\ UNCHANGED idle

LifeOnClose == \E h \in Handles : OnClose(h) /\ UNCHANGED idle

LifeWsClose == WsClose /\ UNCHANGED idle

NextLife ==
  \/ \E mode \in Modes : LifeInit(mode)
  \/ LifeOpened
  \/ LifeOpenFailed
  \/ LifeAudio
  \/ LifeTimer
  \/ LifeBadMessage
  \/ LifeProvider
  \/ LifeOnClose
  \/ LifeWsClose

\* A connection whose init commands do not overlap: a new init is sent only
\* when no provider open is awaited. What the program itself schedules always
\* happens in the end: an awaited open settles, a due timer callback runs, the
\* close callback of a closed session is delivered.
SpecLife ==
  /\ Init /\ [][NextLife]_vars
  /\ WF_vars(LifeOpened \/ LifeOpenFailed)
  /\ WF_vars(LifeTimer)
  /\ WF_vars(LifeOnClose)

NoneOpen == \A h \in Handles : live[h] # "open"

\* C17: after the connection closes no silence timeout is pending, and from
\* some moment on no provider session opened for the connection is open.
C17_CloseReleasesEverything ==
  [](~wsOpen => (silenceTimer = -1 /\ <>[]NoneOpen))

\* C19: a malformed client message gets exactly one error reply and no
\* failure escapes the message handler.
C19_MalformedMessageGetsErrorReply ==
  step.op = "bad_message" =>
    /\ Count(step.sent, "error") = 1
    /\ ~step.threw

\* --------------------------------------------------- the quiz-dispatch scenario
quizIdle == <<triggers, scenVars, auxVars>>

\* what the turn completion that has just run handed to eventEngine.processTurn
\* (the arguments of the call; its results while no trigger awaits generation)
TurnCall ==
  LET susp == Len(pendingQuiz') > Len(pendingQuiz)
      count == IF susp THEN pendingQuiz'[Len(pendingQuiz')].messageCount
               ELSE getUserMessageCount(messages', sessionId)
      results == [k \in DOMAIN eventEngine |-> NullResult]
  IN  [messageCount |-> count,
       raws |-> IF susp THEN <<>> ELSE [k \in DOMAIN eventEngine |-> "unused"],
       fired |-> [k \in DOMAIN eventEngine |-> susp],
       results |-> IF susp THEN <<>> ELSE results,
       status |-> IF susp THEN "pending" ELSE processTurn(results).status,
       events |-> <<>>]

\* the client opens a session, or a further one once the previous is settled
QzInit(mode) ==
  /\ MayInit /\ TurnIdle
  /\ \A h \in Handles : live[h] # "connecting"
  /\ InitCmd(mode)
  /\ UNCHANGED <<engineOut, quizIdle>>

QzReady ==
  /\ \E h \in Handles : InitResume(h)
  /\ UNCHANGED <<engineOut, quizIdle>>

\* the provider delivers the transcript of the next utterance
QzTranscript ==
  /\ geminiSession # 0 /\ TurnIdle
  /\ nextUtter < MaxQuizTurns
  /\ \/ LiveMessage(geminiSession, FALSE, FALSE, TRUE)
     \/ TextLiveMessage(geminiSession, FALSE, FALSE, TRUE)
  /\ UNCHANGED <<engineOut, quizIdle>>

\* audio mode: the response completes, with or without a remembered utterance
QzComplete ==
  /\ geminiSession # 0 /\ pendingQuiz = <<>>
  /\ \E parts \in BOOLEAN : LiveMessage(geminiSession, parts, TRUE, FALSE)
  /\ engineOut' = IF messages' # messages THEN TurnCall ELSE engineOut
  /\ UNCHANGED quizIdle

\* text mode: the response text completes and speech synthesis is awaited
QzText ==
  /\ geminiSession # 0 /\ pendingQuiz = <<>> /\ pendingTTS = <<>>
  /\ TextLiveMessage(geminiSession, TRUE, TRUE, FALSE)
  /\ UNCHANGED <<engineOut, quizIdle>>

QzSynthesised ==
  /\ \E ok \in BOOLEAN : TTSResume(1, ok)
  /\ engineOut' = IF messages' # messages THEN TurnCall ELSE engineOut
  /\ UNCHANGED quizIdle

\* the generation call settles with any outcome
QzSettle(raw) ==
  /\ pendingQuiz # <<>>
  /\ QuizResume(1, raw)
  /\ LET results == [k \in DOMAIN eventEngine |->
                       QuizRuleOnTurn(pendingQuiz[1].messageCount, raw)]
         out == processTurn(results)
     IN  engineOut' = [messageCount |-> pendingQuiz[1].messageCount,
                       raws |-> [k \in DOMAIN eventEngine |-> raw],
                       fired |-> [k \in DOMAIN eventEngine |-> TRUE],
                       results |-> results,
                       status |-> out.status,
                       events |-> out.events]
  /\ UNCHANGED quizIdle

NextQuiz ==
  \/ \E mode \in Modes : QzInit(mode)
  \/ QzReady
  \/ QzTranscript
  \/ QzComplete
  \/ QzText
  \/ QzSynthesised
  \/ \E raw \in GenOutputs : QzSettle(raw)

\* Sessions of one connection, one after the other, whose turns complete one
\* after the other; the generation step may return anything.
SpecQuiz == Init /\ [][NextQuiz]_vars

\* ------------------------------------------------------ quiz events and turns
\* C21: every quiz that is persisted (and sent) carries at least one
\* question, whatever the generation step returned.
C21_QuizHasQuestions ==
  \A k \in DOMAIN quizzes : quizzes[k].questions.length >= 1

\* C28: once the processing of a provider turn completion has ended, in
\* either mode and also for a text turn that completes without response text,
\* no remembered user utterance is left.
C28_UtteranceClearedAfterTurn ==
  (/\ step.op \in {"response_complete", "tts_resume", "quiz_resume", "text_turn_complete"}
   /\ Count(step.sent, "transcript") = 0
   /\ pendingQuiz = <<>> /\ pendingTTS = <<>>) =>
    currentUserTranscript = 0

\* C29: force_commit, turn completion, the firing of the timeout and the
\* close of the connection leave no silence timeout pending.
C29_NoTimeoutLeftPending ==
  step.op \in {"force_commit", "response_complete", "tts_resume", "timer", "ws_close"} =>
    silenceTimer = -1

\* C30: the connection stops holding its provider session only when an init
\* replaces it, the connection closes or that session itself has closed; the
\* close callback of another session does not clear the handle.
C30_HandleKeptUntilOwnClose ==
  [][(geminiSession # 0 /\ geminiSession' # geminiSession) =>
       \/ step'.op \in {"init", "ws_close"}
       \/ live'[geminiSession] = "closed"]_vars

\* C22: when the generation step returns text that is not JSON, the trigger
\* returns no event (it does not fail), processTurn returns nothing, no quiz
\* is persisted or sent, no error is reported and the turn completion ends.
C22_MalformedGenerationYieldsNothing ==
  [][(step'.op = "quiz_resume" /\ engineOut'.raws = <<"nonjson">>) =>
       /\ engineOut'.results = <<NullResult>>
       /\ engineOut'.status = "fulfilled"
       /\ engineOut'.events = <<>>
       /\ quizzes' = quizzes
       /\ Count(step'.sent, "quiz") = 0
       /\ Count(step'.sent, "error") = 0
       /\ messages' = messages
       /\ currentUserTranscript' = 0]_vars

C22_Witness ==
  /\ step.op = "quiz_resume"
  /\ engineOut.raws = <<"nonjson">>
  /\ engineOut.messageCount = TRIGGER_EVERY_N_MESSAGES
  /\ quizzes = <<>>

TurnRows(sid, transcript, aiMessage) ==
  << [sid |-> sid, role |-> "user", content |-> transcript],
     [sid |-> sid, role |-> "assistant", content |-> aiMessage] >>

UserRowsOf(msgs, sid) ==
  Len(SelectSeq(msgs, LAMBDA m : m.sid = sid /\ m.role = "user"))

\* C26: a response-complete callback persists only with a session and a
\* remembered utterance; then it appends, for the current session, the
\* utterance as one user message followed by one assistant message, after the
\* final output was relayed and before a trigger is given the turn; without a
\* remembered utterance it persists nothing and runs no trigger.
C26_TurnPersistedOnlyWithUtterance ==
  [][step'.op \in {"response_complete", "tts_resume"} =>
       IF sessionId # 0 /\ currentUserTranscript # 0
       THEN /\ messages' = messages \o
                 TurnRows(sessionId, currentUserTranscript,
                          IF step'.op = "tts_resume" THEN "text" ELSE "[audio]")
            /\ wsOpen => Count(step'.sent, "avatar_state:listening") = 1
            /\ Len(pendingQuiz') > Len(pendingQuiz) =>
                 pendingQuiz'[Len(pendingQuiz')].messageCount =
                   UserRowsOf(messages', sessionId)
       ELSE /\ messages' = messages
            /\ pendingQuiz' = pendingQuiz]_vars

C26_Witness ==
  /\ step.op = "tts_resume"
  /\ Len(messages) = 4
  /\ messages[3].role = "user" /\ messages[4].role = "assistant"

\* C27: the messageCount handed to the event engine is the number of user
\* messages appended for the session of the turn, the one just appended
\* included, and no message of another session.
C27_MessageCountIsSessionUserCount ==
  [][messages' # messages =>
       /\ engineOut'.messageCount = UserRowsOf(messages', sessionId)
       /\ engineOut'.messageCount = UserRowsOf(messages, sessionId) + 1
       /\ engineOut'.status = "pending" <=>
            (engineOut'.messageCount % TRIGGER_EVERY_N_MESSAGES = 0)]_vars

C27_Witness ==
  /\ sessionId = 2
  /\ UserRowsOf(messages, 1) >= 1
  /\ UserRowsOf(messages, 2) = TRIGGER_EVERY_N_MESSAGES
  /\ engineOut.status = "pending"
  /\ engineOut.messageCount = TRIGGER_EVERY_N_MESSAGES

\* ------------------------------------------------------------ the turn store
storeIdle == <<connVars, provVars, sessions, quizzes, contVars, engineVars,
               obsVars, scenVars, agentVars, promptVars>>

SessionRows(msgs, sid) == {k \in DOMAIN msgs : msgs[k].sid = sid}

\* ORDER BY timestamp DESC: SQL leaves the order of rows with equal
\* timestamps open; tie is how the engine happens to break it (by rowid,
\* ascending or descending)
ComesBefore(st, x, y, tie) ==
  \/ st[x] > st[y]
  \/ st[x] = st[y] /\ (IF tie = "rowid_asc" THEN x < y ELSE x > y)

RECURSIVE OrderByTimestampDesc(_, _, _)
OrderByTimestampDesc(S, st, tie) ==
  IF S = {} THEN <<>>
  ELSE LET x == CHOOSE x \in S : \A y \in S \ {x} : ComesBefore(st, x, y, tie)
       IN  <<x>> \o OrderByTimestampDesc(S \ {x}, st, tie)

\* getMessages(sessionId, limit): the row ids it returns, in order
getMessages(msgs, st, sid, limit, tie) ==
  LET sorted == OrderByTimestampDesc(SessionRows(msgs, sid), st, tie)
  IN  SubSeq(sorted, 1, Min(limit, Len(sorted)))

\* saveTurnAndDispatchEvents appends the user and the assistant message back
\* to back; each addMessage stamps its row with Date.now(), and a millisecond
\* may or may not pass between the two calls
StoreTurn(sid, msPassed) ==
  /\ Len(messages) < 2 * MaxStoreTurns
  /\ LET t2 == clock + (IF msPassed THEN 1 ELSE 0)
     IN  /\ messages' = SaveTurn(messages, sid, Len(messages) + 1, "[audio]")
         /\ stamps' = stamps \o <<clock, t2>>
         /\ clock' = t2
  /\ UNCHANGED <<readOut, storeIdle>>

\* time passes between turns
StoreTick ==
  /\ clock < MaxClock
  /\ clock' = clock + 1
  /\ UNCHANGED <<messages, stamps, readOut, storeIdle>>

StoreRead(sid, limit, tie) ==
  /\ readOut' = [sid |-> sid, limit |-> limit, size |-> Len(messages),
                 rows |-> getMessages(messages, stamps, sid, limit, tie)]
  /\ UNCHANGED <<messages, stamps, clock, storeIdle>>

NextStore ==
  \/ \E sid \in Handles, msPassed \in BOOLEAN : StoreTurn(sid, msPassed)
  \/ StoreTick
  \/ \E sid \in Handles, limit \in 1..(2 * MaxStoreTurns),
        tie \in {"rowid_asc", "rowid_desc"} : StoreRead(sid, limit, tie)

\* Turns appended for up to MaxInit sessions and read back with any limit.
SpecStore == Init /\ [][NextStore]_vars

RECURSIVE NewestFirst(_)
NewestFirst(S) ==
  IF S = {} THEN <<>>
  ELSE LET x == CHOOSE x \in S : \A y \in S : y <= x
       IN  <<x>> \o NewestFirst(S \ {x})

\* C23: after N user and N assistant messages were appended for a session,
\* reading its recent messages with a limit L <= 2N returns exactly the last L
\* appended, newest first, also when messages share a timestamp.
C23_RecentMessagesRoundTrip ==
  (/\ readOut.sid # 0
   /\ readOut.size = Len(messages)
   /\ readOut.limit <= Cardinality(SessionRows(messages, readOut.sid))) =>
    readOut.rows = SubSeq(NewestFirst(SessionRows(messages, readOut.sid)),
                          1, readOut.limit)

\* what C23 states, for rows whose timestamps are all different
RoundTripWithDistinctStamps ==
  (/\ readOut.sid # 0
   /\ readOut.size = Len(messages)
   /\ readOut.limit <= Cardinality(SessionRows(messages, readOut.sid))
   /\ \A x, y \in DOMAIN stamps : x # y => stamps[x] # stamps[y]) =>
    readOut.rows = SubSeq(NewestFirst(SessionRows(messages, readOut.sid)),
                          1, readOut.limit)

\* ---------------------------------------------------------------------------
\* The judging trigger (QuizAgentTrigger) on its own: one instance, as one
\* registration on the module-level eventEngine gives, called with the turn
\* contexts of the sessions of the process.

agentIdle == <<connVars, provVars, sessions, quizzes, contVars, engineVars,
               obsVars, scenVars, storeVars, promptVars>>

\* ctx.messageCount - this.lastTriggeredAt < this.minGap; a number minus
\* -Infinity is Infinity, which is not below any gap
GapBelow(messageCount, last, minGap) ==
  last.finite /\ messageCount - last.n < minGap

\* the condition of the early return of onTurn, negated
AgentGatePasses(messageCount, last) ==
  ~(messageCount < MIN_MESSAGES \/ GapBelow(messageCount, last, DEFAULT_MIN_GAP))

\* a turn of session sid is saved and onTurn is called with its context; the
\* call returns null at the gate or suspends at the judgment request
AgentTurn(sid) ==
  /\ Len(messages) < 2 * MaxAgentTurns
  /\ Len(agentCalls) < MaxAgentCalls
  /\ messages' = SaveTurn(messages, sid, 1, "[audio]")
  /\ LET messageCount == getUserMessageCount(messages', sid)
         call == [sid |-> sid, messageCount |-> messageCount,
                  seen |-> lastTriggeredAt, alone |-> ownLast[sid]]
     IN  IF AgentGatePasses(messageCount, lastTriggeredAt)
         THEN /\ agentCalls' = Append(agentCalls, call)
              /\ UNCHANGED agentOut
         ELSE /\ agentOut' = [sid |-> sid, messageCount |-> messageCount,
                              decision |-> "none", raw |-> "none",
                              seen |-> lastTriggeredAt, alone |-> ownLast[sid],
                              prev |-> ownLast[sid], before |-> lastTriggeredAt,
                              event |-> "null", length |-> -1]
              /\ UNCHANGED agentCalls
  /\ UNCHANGED <<lastTriggeredAt, ownLast, agentIdle>>

\* the rest of a suspended onTurn call: the judgment arrives (or its request
\* rejects), then the generation output raw
AgentSettle(i, decision, raw) ==
  /\ i \in DOMAIN agentCalls
  /\ LET call == agentCalls[i]
         questions == generateQuiz(raw)
         outcome ==
           IF decision = "neterr" THEN RejectedResult
           ELSE IF decision # "YES" THEN NullResult
           ELSE IF questions.kind = "rejected" \/ questions.json = "null"
           THEN RejectedResult
           ELSE IF questions.length = 0 THEN NullResult
           ELSE [status |-> "fulfilled", event |-> "quiz",
                 json |-> questions.json, length |-> questions.length]
     IN  /\ agentCalls' = Remove(agentCalls, i)
         /\ lastTriggeredAt' = IF IsEvent(outcome) THEN Finite(call.messageCount)
                               ELSE lastTriggeredAt
         /\ ownLast' = IF IsEvent(outcome)
                       THEN [ownLast EXCEPT ![call.sid] = Finite(call.messageCount)]
                       ELSE ownLast
         /\ agentOut' = [sid |-> call.sid, messageCount |-> call.messageCount,
                         decision |-> decision,
                         raw |-> IF decision = "YES" THEN raw ELSE "none",
                         seen |-> call.seen, alone |-> call.alone,
                         prev |-> ownLast[call.sid], before |-> lastTriggeredAt,
                         event |-> IF outcome.status = "rejected" THEN "rejected"
                                   ELSE outcome.event,
                         length |-> outcome.length]
  /\ UNCHANGED <<messages, agentIdle>>

NextAgent ==
  \/ \E sid \in Handles : AgentTurn(sid)
  \/ \E i \in 1..MaxAgentCalls, decision \in {"YES", "NO", "neterr"} :
        \E raw \in (IF decision = "YES" THEN GenOutputs ELSE {"[q]"}) :
          AgentSettle(i, decision, raw)

\* Up to MaxAgentTurns turns of up to MaxInit sessions judged by one trigger.
SpecAgent == Init /\ [][NextAgent]_vars

\* C24: the judging trigger emits a quiz only on a turn whose count is at
\* least 4, at least minGap after the last quiz of that conversation, judged
\* YES, and whose generation gave at least one question; its marker moves only
\* on a turn where it emits.
C24_AgentEmitsOnlyWhenDue ==
  /\ agentOut.event = "quiz" =>
        /\ agentOut.messageCount >= MIN_MESSAGES
        /\ ~GapBelow(agentOut.messageCount, agentOut.prev, DEFAULT_MIN_GAP)
        /\ agentOut.decision = "YES"
        /\ QuestionsIn(agentOut.raw) >= 1
  /\ agentOut.event \in {"null", "rejected"} => lastTriggeredAt = agentOut.before

\* the part of C24 about the distance between successive quizzes of one
\* conversation
AgentQuizzesKeepTheirDistance ==
  agentOut.event = "quiz" =>
    ~GapBelow(agentOut.messageCount, agentOut.prev, DEFAULT_MIN_GAP)

\* the part of C24 about the marker: it moves only when a quiz is emitted
AgentMarkerMovesOnlyOnEmission ==
  agentOut.event \in {"null", "rejected"} => lastTriggeredAt = agentOut.before

\* C25: whether the trigger lets a turn through depends only on the turn
\* context of the session the turn belongs to: the gate decides as it would
\* with the last quiz of that session alone.
C25_EmissionDependsOnOwnSessionOnly ==
  agentOut.event # "none" =>
    AgentGatePasses(agentOut.messageCount, agentOut.seen)
      = AgentGatePasses(agentOut.messageCount, agentOut.alone)

\* ---------------------------------------------------------------------------
\* C31: every session_ready carries the id of the session minted by the very
\* init command whose provider session it acknowledges, also when init
\* commands overlap.
C31_ReadyCarriesOwnSessionId ==
  (step.op = "init_resume" /\ Count(step.sent, "session_ready") = 1) =>
    step.ready = geminiSession

\* ---------------------------------------------------------------------------
\* The conversation text of the generation prompt: turns are saved for up to
\* MaxInit sessions, and on each turn that the rule trigger lets through the
\* history is read and generateQuiz builds its prompt from it.

promptIdle == <<connVars, provVars, sessions, quizzes, contVars, engineVars,
                obsVars, scenVars, readOut, agentVars>>

\* Array.prototype.reverse, on a copy
Reverse(seq) == [i \in 1..Len(seq) |-> seq[Len(seq) + 1 - i]]

\* Array.prototype.slice(0, n)
SliceFromStart(seq, n) == SubSeq(seq, 1, Min(n, Len(seq)))

\* the template of one line: Guest or MC, then the content
PromptLine(m) ==
  [speaker |-> IF m.role = "user" THEN "Guest" ELSE "MC", content |-> m.content]

\* the lines of conversationText, for a history given as rows of the store
conversationText(history) ==
  LET kept == SliceFromStart(Reverse(history), PROMPT_HISTORY_LIMIT)
  IN  [i \in 1..Len(kept) |-> PromptLine(kept[i])]

\* the rows getMessages returns, as messages
History(msgs, ids) == [i \in 1..Len(ids) |-> msgs[ids[i]]]

\* saveTurnAndDispatchEvents for a turn of session sid: the two messages are
\* appended (here a millisecond apart, each with a content of its own), the
\* history is read, and on a turn the rule trigger lets through generateQuiz
\* builds the conversation text from that history
PromptTurn(sid, tie) ==
  /\ Len(messages) < 2 * MaxPromptTurns
  /\ LET n == Len(messages)
         msgs == SaveTurn(messages, sid, n + 1, n + 2)
         st == stamps \o <<clock + 1, clock + 2>>
         history == History(msgs, getMessages(msgs, st, sid, HISTORY_WINDOW, tie))
     IN  /\ messages' = msgs
         /\ stamps' = st
         /\ clock' = clock + 2
         /\ prompt' = IF QuizRuleFires(getUserMessageCount(msgs, sid))
                      THEN [sid |-> sid, history |-> history,
                            lines |-> conversationText(history)]
                      ELSE prompt
  /\ UNCHANGED promptIdle

NextPrompt ==
  \E sid \in Handles, tie \in {"rowid_asc", "rowid_desc"} : PromptTurn(sid, tie)

\* Up to MaxPromptTurns turns of up to MaxInit sessions, with the prompts
\* built on the way.
SpecPrompt == Init /\ [][NextPrompt]_vars

\* C32: the conversation text consists of the most recent
\* min(PROMPT_HISTORY_LIMIT, |history|) messages of the newest-first history
\* generateQuiz is given, listed oldest first.
C32_PromptHoldsMostRecentMessages ==
  prompt.sid # 0 =>
    LET k == Min(PROMPT_HISTORY_LIMIT, Len(prompt.history))
        recent == Reverse(SubSeq(prompt.history, 1, k))
    IN  prompt.lines = [i \in 1..k |-> PromptLine(recent[i])]

\* what C32 states, for a history no longer than PROMPT_HISTORY_LIMIT
PromptHoldsWholeShortHistory ==
  (prompt.sid # 0 /\ Len(prompt.history) <= PROMPT_HISTORY_LIMIT) =>
    prompt.lines = [i \in 1..Len(prompt.history) |->
                      PromptLine(Reverse(prompt.history)[i])]

\* the conversation text is in chronological order whatever the length
PromptIsOldestFirst ==
  \A i, j \in DOMAIN prompt.lines :
    i < j => prompt.lines[i].content < prompt.lines[j].content

====
